---- MODULE Spec2Model ----
(***************************************************************************)
(* Solution Document Synthesizer (src/app.py): the Streamlit session state *)
(* of the synthesis pipeline, the knowledge base keyed by CR number and    *)
(* its JSON file, and one action per button handler of the script.         *)
(*                                                                         *)
(* Python strings are sequences of one-character strings; a multi-letter   *)
(* element such as "D1" stands for an opaque chunk of text on which the    *)
(* code performs no character-level operation.                             *)
(***************************************************************************)
EXTENDS Integers, Sequences, FiniteSets, TLC

VARIABLES
    generated_sd,           \* st.session_state.generated_sd
    knowledge_base,         \* st.session_state.knowledge_base: dict, in insertion order
    awaiting_missing_info,  \* st.session_state.awaiting_missing_info
    missing_info_report,    \* st.session_state.missing_info_report
    cached_docs,            \* st.session_state.cached_docs
    cr_conflict,            \* st.session_state.cr_conflict
    kb_file,                \* content of knowledge_base.json, None when the file is absent
    api_key,                \* os.getenv("GROQ_API_KEY")
    inputs,                 \* the button clicked in the last script run and the widget values it read
    calls                   \* the backend calls issued by the last script run, in order:
                            \* the helper called, its arguments, whether the backend answered
                            \* (ok), the backend's text and what the helper returned (ret)

session == <<generated_sd, awaiting_missing_info, missing_info_report, cached_docs, cr_conflict>>
vars == <<generated_sd, knowledge_base, awaiting_missing_info, missing_info_report,
          cached_docs, cr_conflict, kb_file, api_key, inputs, calls>>

----------------------------------------------------------------------------
(* Bounds of the model *)

\* Insertions are explored while the knowledge base holds fewer entries than this.
MaxKB == 2

----------------------------------------------------------------------------
(* Python values *)

None == <<"<None>">>
ValueError == <<"<ValueError>">>
Raises == -1

\* Variant: only None is false, so an empty text passes an `if`
Truthy_unless_None(x) == x # None

Truthy(x) == x # None /\ x # <<>>

Whitespace == {" ", "\n"}
AsciiDigits == <<"0", "1", "2", "3", "4", "5", "6", "7", "8", "9">>
\* str.isdigit() is also true of digits int() does not accept, such as superscript two
SuperscriptDigits == {"^2"}

RECURSIVE lstrip(_)
lstrip(s) == IF s # <<>> /\ Head(s) \in Whitespace THEN lstrip(Tail(s)) ELSE s

RECURSIVE rstrip(_)
rstrip(s) == IF s # <<>> /\ s[Len(s)] \in Whitespace
             THEN rstrip(SubSeq(s, 1, Len(s) - 1)) ELSE s

strip(s) == rstrip(lstrip(s))

startswith(s, prefix) == Len(s) >= Len(prefix) /\ SubSeq(s, 1, Len(prefix)) = prefix

isdigit(s) == /\ s # <<>>
              /\ \A i \in 1..Len(s) :
                    s[i] \in {AsciiDigits[d] : d \in 1..10} \cup SuperscriptDigits

DigitValue(c) == (CHOOSE d \in 1..10 : AsciiDigits[d] = c) - 1

\* int(s) for a string of digits: the number, or Raises (ValueError)
RECURSIVE int(_)
int(s) == IF \E i \in 1..Len(s) : s[i] \notin {AsciiDigits[d] : d \in 1..10} THEN Raises
          ELSE IF Len(s) = 1 THEN DigitValue(s[1])
          ELSE 10 * int(SubSeq(s, 1, Len(s) - 1)) + DigitValue(s[Len(s)])

RECURSIVE str(_)
str(n) == IF n < 10 THEN <<AsciiDigits[n + 1]>>
          ELSE str(n \div 10) \o <<AsciiDigits[(n % 10) + 1]>>

RECURSIVE zfill(_, _)
zfill(s, width) == IF Len(s) >= width THEN s ELSE zfill(<<"0">> \o s, width)

\* dict operations on a sequence of [key, doc] entries kept in insertion order
DictKeys(kb) == {kb[i].key : i \in 1..Len(kb)}
DictHas(kb, key) == key \in DictKeys(kb)
DictGet(kb, key) == kb[CHOOSE i \in 1..Len(kb) : kb[i].key = key].doc
\* Variant: the value is read after the run state was cleared, so an empty text is stored
DictSet_cleared(kb, key, doc) ==
    IF DictHas(kb, key)
    THEN LET i == CHOOSE j \in 1..Len(kb) : kb[j].key = key
         IN  SubSeq(kb, 1, i - 1) \o <<[key |-> key, doc |-> <<>>]>> \o SubSeq(kb, i + 1, Len(kb))
    ELSE Append(kb, [key |-> key, doc |-> <<>>])

\* kb[key] = doc: an existing key keeps its position and takes the new value
DictSet(kb, key, doc) ==
    IF DictHas(kb, key)
    THEN LET i == CHOOSE j \in 1..Len(kb) : kb[j].key = key
         IN  SubSeq(kb, 1, i - 1) \o <<[key |-> key, doc |-> doc]>> \o SubSeq(kb, i + 1, Len(kb))
    ELSE Append(kb, [key |-> key, doc |-> doc])

\* json.dump writes the entries as key/value pairs in dict order; json.load reads them back
\* Variant: a dump that misses the entry added last
json_dump_without_last(kb) == [i \in 1..(Len(kb) - 1) |-> <<kb[i].key, kb[i].doc>>]

RECURSIVE json_dump(_)
json_dump(kb) == IF kb = <<>> THEN <<>>
                 ELSE <<<<Head(kb).key, Head(kb).doc>>>> \o json_dump(Tail(kb))

RECURSIVE json_load(_)
json_load(text) == IF text = <<>> THEN <<>>
                   ELSE DictSet(json_load(SubSeq(text, 1, Len(text) - 1)),
                                text[Len(text)][1], text[Len(text)][2])

----------------------------------------------------------------------------
(* Literals of the program *)

CR == <<"C", "R">>
INVALID == <<"I", "N", "V", "A", "L", "I", "D">>
NONE == <<"N", "O", "N", "E">>
CRWidth == 6
CR000001 == <<"C", "R", "0", "0", "0", "0", "0", "1">>
API_ERROR == INVALID \o <<":", " ", "API Error during validation - ", "e">>
SUPPLEMENT_HEADER == <<"\n", "\n", "[User Provided Supplemental Information]:", "\n">>

----------------------------------------------------------------------------
(* Helper functions of the program *)

\* Variant: the comparison of the loop reversed, so that max_num never rises
RECURSIVE max_num_loop_reversed(_, _, _)
max_num_loop_reversed(kb, i, max_num) ==
    IF i > Len(kb) THEN max_num
    ELSE LET key == kb[i].key
             suffix == SubSeq(key, 3, Len(key))
         IN  IF startswith(key, CR) /\ isdigit(suffix)
             THEN LET num == int(suffix)
                  IN  IF num = Raises THEN Raises
                      ELSE max_num_loop_reversed(kb, i + 1, IF num < max_num THEN num ELSE max_num)
             ELSE max_num_loop_reversed(kb, i + 1, max_num)

\* The for loop of get_next_cr_number from entry i on; Raises when int() raises
RECURSIVE max_num_loop(_, _, _)
max_num_loop(kb, i, max_num) ==
    IF i > Len(kb) THEN max_num
    ELSE LET key == kb[i].key
             suffix == SubSeq(key, 3, Len(key))
         IN  IF startswith(key, CR) /\ isdigit(suffix)
             THEN LET num == int(suffix)
                  IN  IF num = Raises THEN Raises
                      ELSE max_num_loop(kb, i + 1, IF num > max_num THEN num ELSE max_num)
             ELSE max_num_loop(kb, i + 1, max_num)

get_next_cr_number(kb) ==
    IF kb = <<>> THEN CR000001
    ELSE LET max_num == max_num_loop(kb, 1, 0)
         IN  IF max_num = Raises THEN ValueError
             ELSE CR \o zfill(str(max_num + 1), CRWidth)

\* Variant: an exception of the validation call is answered as valid
check_document_relevance_fail_open(content, doc_type, resp) ==
    IF resp.ok THEN strip(resp.text) ELSE <<"V", "A", "L", "I", "D">>

\* resp is what the backend does with the request: [ok |-> FALSE] is an exception
check_document_relevance(content, doc_type, resp) ==
    IF resp.ok THEN strip(resp.text) ELSE API_ERROR

\* Variant: an exception of the gap-analysis call is reported as a gap
check_missing_information_fail_closed(template_xml, reg_text, brd_text, resp) ==
    IF resp.ok THEN strip(resp.text) ELSE <<"API Error: ", "e">>

check_missing_information(template_xml, reg_text, brd_text, resp) ==
    IF resp.ok THEN strip(resp.text) ELSE NONE

\* Variant: the error text is returned instead of None
get_groq_response_error_text(user_content, key, resp) ==
    IF ~Truthy(key) THEN None
    ELSE IF resp.ok THEN resp.text ELSE <<"API Error: ", "e">>

get_groq_response(user_content, key, resp) ==
    IF ~Truthy(key) THEN None
    ELSE IF resp.ok THEN resp.text ELSE None

\* Variant: the revision is appended to the current document
refine_solution_document_merge(current_sd, edit_instruction, key, resp) ==
    IF ~Truthy(key) THEN None
    ELSE IF resp.ok THEN current_sd \o resp.text ELSE None

refine_solution_document(current_sd, edit_instruction, key, resp) ==
    IF ~Truthy(key) THEN None
    ELSE IF resp.ok THEN resp.text ELSE None

\* The request reaches the backend only past the credential check
groq_calls(fn, args, key, resp, ret) ==
    IF ~Truthy(key) THEN <<>>
    ELSE <<[fn |-> fn, args |-> args, ok |-> resp.ok, text |-> resp.text, ret |-> ret]>>

\* parent_sd_content of the script run
parent_lookup(kb, parent_cr) ==
    IF Truthy(parent_cr) /\ DictHas(kb, parent_cr) THEN DictGet(kb, parent_cr) ELSE <<>>

\* The sections of the synthesis prompt
synthesize_prompt(reg, brd, additional, template, parent_sd_content) ==
    [reg |-> reg, brd |-> brd, tpl |-> template,
     add |-> IF strip(additional) # <<>> THEN additional ELSE None,
     parent |-> IF Truthy(parent_sd_content) THEN parent_sd_content ELSE None]

----------------------------------------------------------------------------
(* The environment: what the user can enter and what the backend can answer *)

D1 == <<"D1">>
D2 == <<"D2">>
CRX == <<"C", "R", "X">>
CR3 == <<"C", "R", "3">>
KEY == <<"k">>

Fail == [ok |-> FALSE, text |-> <<>>]
Resp(text) == [ok |-> TRUE, text |-> text]

ValidationResponses ==
    {Fail, Resp(<<"O", "K">>), Resp(<<"\n">> \o INVALID \o <<":", " ", "r">>)}
GapResponses == {Fail, Resp(NONE \o <<"\n">>), Resp(<<"-", " ", "g">>)}
SynthesisResponses == {Fail, Resp(<<>>), Resp(D1)}
RefineResponses == {Fail, Resp(<<>>), Resp(D1), Resp(D2)}

\* knowledge_base.json as an earlier session may have left it
InitialFiles == {None, json_dump(<<[key |-> CRX, doc |-> D1]>>)}

\* What the user typed in the "Current CR No." box; the box starts with the auto_cr default
TypedKeys(kb) == {<<" ">>, <<" ">> \o CR3 \o <<" ">>, CR \o <<"^2">>, get_next_cr_number(kb)}
ParentKeys == {<<>>, CR000001}
Supplements == {<<>>, <<" ">>, <<"S">>}
Instructions == {<<" ">>, <<"X">>}

NoInputs == [btn |-> "", reg |-> <<>>, brd |-> <<>>, add |-> <<>>, tpl |-> None,
             parent_cr |-> <<>>, current_cr |-> <<>>, user_supplemental |-> <<>>,
             edit_instruction |-> <<>>]

\* The uploads, the template file and the parent CR box at an Analyze click
Uploads(reg, brd, add, tpl, parent_cr) ==
    [NoInputs EXCEPT !.btn = "generate_btn", !.reg = reg, !.brd = brd, !.add = add,
                     !.tpl = tpl, !.parent_cr = parent_cr]
AnalyzeInputs ==
    {Uploads(<<"R">>, <<"B">>, add, <<"T">>, p) : add \in {<<>>, <<"A">>}, p \in ParentKeys}
    \cup {Uploads(<<"R">>, <<"B">>, <<>>, None, <<>>),
          Uploads(<<"R">>, <<"B">>, <<>>, <<>>, <<>>),
          Uploads(<<>>, <<"B">>, <<>>, <<"T">>, <<>>),
          Uploads(<<"R">>, <<>>, <<>>, <<"T">>, <<>>)}

----------------------------------------------------------------------------
(* State *)

EmptyDict == <<>>

Init ==
    /\ generated_sd = <<>>
    /\ kb_file \in InitialFiles
    /\ knowledge_base = IF kb_file # None THEN json_load(kb_file) ELSE EmptyDict
    /\ awaiting_missing_info = FALSE
    /\ missing_info_report = <<>>
    /\ cached_docs = EmptyDict
    /\ cr_conflict = None
    /\ api_key \in {None, KEY}
    /\ inputs = NoInputs
    /\ calls = <<>>

\* Variant: clear_inputs without its cr_conflict reset
clear_inputs_keeps_conflict ==
    /\ generated_sd' = <<>>
    /\ awaiting_missing_info' = FALSE
    /\ missing_info_report' = <<>>
    /\ cached_docs' = EmptyDict
    /\ cr_conflict' = cr_conflict

clear_inputs ==
    /\ generated_sd' = <<>>
    /\ awaiting_missing_info' = FALSE
    /\ missing_info_report' = <<>>
    /\ cached_docs' = EmptyDict
    /\ cr_conflict' = None

\* Variant: a listing in insertion order
kb_listing_forward(kb) == kb

\* The expanders of the "Knowledge Base" section, top to bottom
kb_listing(kb) == [i \in 1..Len(kb) |-> kb[Len(kb) + 1 - i]]

\* The script run reaches the widgets below the "Current CR No." box
ScriptReachesInputs == get_next_cr_number(knowledge_base) # ValueError

----------------------------------------------------------------------------
(* The handlers of the script *)

\* execute_synthesis_pipeline, called after the backend calls `earlier` of the same run
\* Variant: the supporting text of the call is written back to the cached texts
execute_synthesis_pipeline_caching(reg, brd, additional, template, key, parent_sd_content, resp, earlier) ==
    LET prompt == synthesize_prompt(reg, brd, additional, template, parent_sd_content)
        response == get_groq_response(prompt, key, resp)
    IN  /\ calls' = earlier \o groq_calls("get_groq_response", prompt, key, resp, response)
        /\ IF Truthy(response)
           THEN /\ generated_sd' = response
                /\ awaiting_missing_info' = FALSE
           ELSE UNCHANGED <<generated_sd, awaiting_missing_info>>
        /\ cached_docs' = IF cached_docs # EmptyDict
                          THEN [cached_docs EXCEPT !.add = additional]
                          ELSE cached_docs
        /\ UNCHANGED <<missing_info_report, cr_conflict>>

execute_synthesis_pipeline(reg, brd, additional, template, key, parent_sd_content, resp, earlier) ==
    LET prompt == synthesize_prompt(reg, brd, additional, template, parent_sd_content)
        response == get_groq_response(prompt, key, resp)
    IN  /\ calls' = earlier \o groq_calls("get_groq_response", prompt, key, resp, response)
        /\ IF Truthy(response)
           THEN /\ generated_sd' = response
                /\ awaiting_missing_info' = FALSE
           ELSE UNCHANGED <<generated_sd, awaiting_missing_info>>
        /\ UNCHANGED <<missing_info_report, cached_docs, cr_conflict>>

\* Variant: the report is tested for being non-empty instead of against the sentinel
gaps_found_truthy(missing_report) == Truthy(missing_report)

\* Variant: the branches of the decision fork swapped
gaps_found_inverted(missing_report) == missing_report = NONE

\* The decision fork of an Analyze
gaps_found(missing_report) == missing_report # NONE

\* Variant: the uploads are not checked
analyze_blocked_no_upload_check(in, key) == ~Truthy(in.tpl) \/ ~Truthy(key)

\* Variant: the credential is not checked
analyze_blocked_no_key_check(in, key) ==
    ~Truthy(in.tpl) \/ strip(in.reg) = <<>> \/ strip(in.brd) = <<>>

\* The warnings that end an Analyze before any backend call
analyze_blocked(in, key) ==
    ~Truthy(in.tpl) \/ strip(in.reg) = <<>> \/ strip(in.brd) = <<>> \/ ~Truthy(key)

\* "Analyze Documents & Generate SD": rv, bv, gr, sr are the backend's answers to the
\* regulatory validation, the business validation, the gap analysis and the synthesis,
\* each chosen when its call is made
Analyze(in) ==
    /\ ScriptReachesInputs
    /\ ~awaiting_missing_info
    /\ inputs' = in
    /\ UNCHANGED <<knowledge_base, kb_file, api_key>>
    /\ IF analyze_blocked(in, api_key)
       THEN /\ calls' = <<>>
            /\ UNCHANGED session
       ELSE \E rv \in ValidationResponses :
            LET reg_validation == check_document_relevance(in.reg, "Regulatory or Compliance", rv)
                c1 == <<[fn |-> "check_document_relevance", args |-> <<in.reg, "reg">>,
                         ok |-> rv.ok, text |-> rv.text, ret |-> reg_validation]>>
            IN  IF startswith(reg_validation, INVALID)
                THEN /\ calls' = c1
                     /\ UNCHANGED session
                ELSE \E bv \in ValidationResponses :
                LET brd_validation == check_document_relevance(in.brd, "Business Requirement or Use Case", bv)
                    c2 == <<[fn |-> "check_document_relevance", args |-> <<in.brd, "brd">>,
                             ok |-> bv.ok, text |-> bv.text, ret |-> brd_validation]>>
                IN  IF startswith(brd_validation, INVALID)
                    THEN /\ calls' = c1 \o c2
                         /\ UNCHANGED session
                    ELSE \E gr \in GapResponses :
                    LET missing_report == check_missing_information(in.tpl, in.reg, in.brd, gr)
                        c3 == <<[fn |-> "check_missing_information",
                                 args |-> <<in.tpl, in.reg, in.brd>>,
                                 ok |-> gr.ok, text |-> gr.text, ret |-> missing_report]>>
                    IN  IF gaps_found(missing_report)
                        THEN /\ calls' = c1 \o c2 \o c3
                             /\ awaiting_missing_info' = TRUE
                             /\ missing_info_report' = missing_report
                             /\ cached_docs' = [reg |-> in.reg, brd |-> in.brd,
                                                add |-> in.add, tpl |-> in.tpl]
                             /\ UNCHANGED <<generated_sd, cr_conflict>>
                        ELSE \E sr \in SynthesisResponses :
                             execute_synthesis_pipeline(in.reg, in.brd, in.add, in.tpl, api_key,
                                 parent_lookup(knowledge_base, in.parent_cr), sr, c1 \o c2 \o c3)

\* Variant: the supplemental text is left out
combined_additional_dropped(cached_add, user_supplemental) == cached_add

\* combined_additional of a Proceed
combined_additional(cached_add, user_supplemental) ==
    IF strip(user_supplemental) # <<>>
    THEN cached_add \o SUPPLEMENT_HEADER \o user_supplemental
    ELSE cached_add

\* "Proceed and Generate SD" of the missing-information prompt
Proceed(user_supplemental, parent_cr, sr) ==
    /\ ScriptReachesInputs
    /\ awaiting_missing_info /\ ~Truthy(generated_sd)
    /\ inputs' = [NoInputs EXCEPT !.btn = "proceed_btn", !.parent_cr = parent_cr,
                                  !.user_supplemental = user_supplemental]
    /\ UNCHANGED <<knowledge_base, kb_file, api_key>>
    /\ execute_synthesis_pipeline(cached_docs.reg, cached_docs.brd,
                                  combined_additional(cached_docs.add, user_supplemental),
                                  cached_docs.tpl, api_key,
                                  parent_lookup(knowledge_base, parent_cr), sr, <<>>)

\* "Cancel Generation" of the missing-information prompt
cancel_btn ==
    /\ awaiting_missing_info /\ ~Truthy(generated_sd)
    /\ inputs' = [NoInputs EXCEPT !.btn = "cancel_btn"]
    /\ calls' = <<>>
    /\ clear_inputs
    /\ UNCHANGED <<knowledge_base, kb_file, api_key>>

\* A script run that reaches the prompt and handles the click on "Cancel Generation"
Cancel == ScriptReachesInputs /\ cancel_btn

\* "Apply Revision" of edit_sd_form: rr is the backend's answer
Refine(edit_instruction, rr) ==
    /\ ScriptReachesInputs
    /\ Truthy(generated_sd)
    /\ inputs' = [NoInputs EXCEPT !.btn = "submit_edit", !.edit_instruction = edit_instruction]
    /\ UNCHANGED <<knowledge_base, kb_file, api_key, awaiting_missing_info,
                   missing_info_report, cached_docs, cr_conflict>>
    /\ IF strip(edit_instruction) # <<>>
       THEN LET revised_sd == refine_solution_document(generated_sd, edit_instruction, api_key, rr)
            IN  /\ calls' = groq_calls("refine_solution_document",
                                       <<generated_sd, edit_instruction>>, api_key, rr, revised_sd)
                /\ generated_sd' = IF Truthy(revised_sd) THEN revised_sd ELSE generated_sd
       ELSE /\ calls' = <<>>
            /\ UNCHANGED generated_sd

\* The key a Store uses: the typed key stripped, or the next CR number when it is blank
\* Variant: the typed key is used as typed
store_key_unstripped(current_cr, kb) ==
    IF strip(current_cr) # <<>> THEN current_cr ELSE get_next_cr_number(kb)

store_key(current_cr, kb) ==
    IF strip(current_cr) # <<>> THEN strip(current_cr) ELSE get_next_cr_number(kb)

\* Variant: a Store without the uniqueness check
cr_key_in_use_unchecked(kb, cr_key) == FALSE

\* The uniqueness check of a Store
cr_key_in_use(kb, cr_key) == DictHas(kb, cr_key)

\* "Insert into Knowledge Base"
Store(current_cr) ==
    /\ ScriptReachesInputs
    /\ Truthy(generated_sd)
    /\ inputs' = [NoInputs EXCEPT !.btn = "save_kb_btn", !.current_cr = current_cr]
    /\ calls' = <<>>
    /\ UNCHANGED api_key
    /\ LET cr_key == store_key(current_cr, knowledge_base)
       IN  IF cr_key_in_use(knowledge_base, cr_key)
           THEN /\ cr_conflict' = cr_key
                /\ UNCHANGED <<knowledge_base, kb_file, generated_sd, awaiting_missing_info,
                               missing_info_report, cached_docs>>
           ELSE /\ Len(knowledge_base) < MaxKB
                /\ knowledge_base' = DictSet(knowledge_base, cr_key, generated_sd)
                /\ kb_file' = json_dump(knowledge_base')
                /\ clear_inputs

\* "Auto-Assign & Save" of the conflict resolution UI
AutoAssign ==
    /\ ScriptReachesInputs
    /\ Truthy(generated_sd) /\ Truthy(cr_conflict)
    /\ Len(knowledge_base) < MaxKB
    /\ inputs' = [NoInputs EXCEPT !.btn = "auto_assign_btn"]
    /\ calls' = <<>>
    /\ UNCHANGED api_key
    /\ LET new_cr == get_next_cr_number(knowledge_base)
       IN  /\ knowledge_base' = DictSet(knowledge_base, new_cr, generated_sd)
           /\ kb_file' = json_dump(knowledge_base')
           /\ clear_inputs

\* "I'll type a new one" of the conflict resolution UI
TypeNew ==
    /\ ScriptReachesInputs
    /\ Truthy(generated_sd) /\ Truthy(cr_conflict)
    /\ inputs' = [NoInputs EXCEPT !.btn = "type_new_btn"]
    /\ calls' = <<>>
    /\ cr_conflict' = None
    /\ UNCHANGED <<knowledge_base, kb_file, api_key, generated_sd, awaiting_missing_info,
                   missing_info_report, cached_docs>>

\* "Discard Output & Start Over"
discard_btn ==
    /\ Truthy(generated_sd)
    /\ inputs' = [NoInputs EXCEPT !.btn = "discard_btn"]
    /\ calls' = <<>>
    /\ clear_inputs
    /\ UNCHANGED <<knowledge_base, kb_file, api_key>>

\* A script run that reaches the output section and handles the click on "Discard Output"
Discard == ScriptReachesInputs /\ discard_btn

\* "Clear Inputs & Reset" of the sidebar, rendered before the "Current CR No." box
Reset ==
    /\ inputs' = [NoInputs EXCEPT !.btn = "clear_all_btn"]
    /\ calls' = <<>>
    /\ clear_inputs
    /\ UNCHANGED <<knowledge_base, kb_file, api_key>>

\* GROQ_API_KEY is added to .env: load_dotenv() of the next script run reads it
ConfigureKey ==
    /\ ~Truthy(api_key)
    /\ api_key' = KEY
    /\ UNCHANGED <<knowledge_base, kb_file, inputs, calls>>
    /\ UNCHANGED session

Next ==
    \/ \E in \in AnalyzeInputs : Analyze(in)
    \/ \E s \in Supplements, p \in ParentKeys, sr \in SynthesisResponses : Proceed(s, p, sr)
    \/ Cancel
    \/ \E i \in Instructions, rr \in RefineResponses : Refine(i, rr)
    \/ \E k \in TypedKeys(knowledge_base) : Store(k)
    \/ AutoAssign
    \/ TypeNew
    \/ Discard
    \/ Reset
    \/ ConfigureKey

Spec == Init /\ [][Next]_vars

----------------------------------------------------------------------------
(* Properties *)

KbUnchanged == knowledge_base' = knowledge_base /\ kb_file' = kb_file
SessionUnchanged == session' = session
Cleared == /\ generated_sd = <<>> /\ ~awaiting_missing_info /\ missing_info_report = <<>>
           /\ cached_docs = EmptyDict /\ cr_conflict = None

\* C1: an entry once in the knowledge base stays there with its document across every
\* step, and a Store whose key (the typed text stripped) already exists inserts nothing,
\* leaves the knowledge base as it was, sets the conflict flag to that key and keeps
\* the generated document.
C1_FirstWriteWins ==
    [][ /\ \A i \in 1..Len(knowledge_base) :
              /\ i <= Len(knowledge_base')
              /\ knowledge_base'[i] = knowledge_base[i]
        /\ (inputs'.btn = "save_kb_btn" /\ DictHas(knowledge_base, strip(inputs'.current_cr)))
              => /\ KbUnchanged
                 /\ cr_conflict' = strip(inputs'.current_cr)
                 /\ generated_sd' = generated_sd ]_vars

\* A Store hit an existing key whose document differs from the generated one
C1_Witness ==
    /\ inputs.btn = "save_kb_btn"
    /\ cr_conflict = strip(inputs.current_cr)
    /\ DictHas(knowledge_base, cr_conflict)
    /\ Truthy(generated_sd)
    /\ DictGet(knowledge_base, cr_conflict) # generated_sd

\* The next key as the knowledge-base contract states it: CR and the zero-padded
\* successor of the largest suffix among the keys that are CR followed by decimal
\* digits, CR000001 when there is none
ConformingNumbers(kb) ==
    {int(SubSeq(k, 3, Len(k))) : k \in {x \in DictKeys(kb) :
        /\ startswith(x, CR) /\ Len(x) > 2
        /\ \A i \in 3..Len(x) : x[i] \in {AsciiDigits[d] : d \in 1..10}}}
NextKeyOfContract(kb) ==
    IF ConformingNumbers(kb) = {} THEN CR000001
    ELSE LET m == CHOOSE n \in ConformingNumbers(kb) : \A o \in ConformingNumbers(kb) : o <= n
         IN  CR \o zfill(str(m + 1), CRWidth)

\* C2: for every knowledge base get_next_cr_number returns the next key of the
\* contract: CR000001 when no key is CR followed by digits, otherwise CR and the
\* zero-padded (largest suffix + 1), whatever the gaps and the other keys.
C2_NextKey == get_next_cr_number(knowledge_base) = NextKeyOfContract(knowledge_base)

\* C3: whenever the conflict flag is set the key Auto-Assign & Save computes is not in
\* the knowledge base, and an Auto-Assign & Save step appends the generated document
\* under that key, leaves every existing entry as it was and clears the run state.
C3_AutoAssignFresh ==
    /\ [](Truthy(cr_conflict) =>
            /\ get_next_cr_number(knowledge_base) # ValueError
            /\ ~DictHas(knowledge_base, get_next_cr_number(knowledge_base)))
    /\ [][ inputs'.btn = "auto_assign_btn" =>
            /\ knowledge_base' = Append(knowledge_base,
                   [key |-> get_next_cr_number(knowledge_base), doc |-> generated_sd])
            /\ Cleared' ]_vars

\* Auto-Assign & Save ran on a knowledge base holding a non-padded key
C3_Witness ==
    /\ inputs.btn = "auto_assign_btn"
    /\ Len(knowledge_base) >= 2
    /\ DictHas(knowledge_base, CR3)
    /\ knowledge_base[Len(knowledge_base)].key = CR \o <<"0", "0", "0", "0", "0", "4">>
    /\ Cleared

\* C4: after an insertion under key k the parent-CR lookup of k returns the document
\* that was generated_sd when the insertion ran.
C4_RoundTrip ==
    [][ \A k \in DictKeys(knowledge_base') \ DictKeys(knowledge_base) :
            /\ Truthy(generated_sd)
            /\ parent_lookup(knowledge_base', k) = generated_sd ]_vars

\* A Store inserted a document that a refinement had produced
C4_Witness ==
    /\ inputs.btn = "save_kb_btn"
    /\ Len(knowledge_base) > 0
    /\ knowledge_base[Len(knowledge_base)].key = strip(inputs.current_cr)
    /\ parent_lookup(knowledge_base, strip(inputs.current_cr)) = D2

\* The last backend call of the run was a generation or refinement call that failed
GenerationFailed(log) ==
    /\ log # <<>>
    /\ log[Len(log)].fn \in {"get_groq_response", "refine_solution_document"}
    /\ ~log[Len(log)].ok

\* C5: a step whose generation or refinement call failed, or that ran Analyze, Proceed
\* or Refine without a credential, leaves the run state and the knowledge base as
\* they were.
C5_FailureKeepsState ==
    [][ (\/ GenerationFailed(calls')
         \/ (~Truthy(api_key) /\ inputs'.btn \in {"generate_btn", "proceed_btn", "submit_edit"}))
        => (SessionUnchanged /\ KbUnchanged) ]_vars

\* A Proceed failed and the run still awaits the supplement
C5_Witness ==
    /\ inputs.btn = "proceed_btn"
    /\ GenerationFailed(calls)
    /\ awaiting_missing_info
    /\ ~Truthy(generated_sd)
    /\ cached_docs # EmptyDict

\* The run issued one refinement call and the backend answered it
RefineAnswered(in, log) ==
    /\ in.btn = "submit_edit"
    /\ Len(log) = 1
    /\ log[1].fn = "refine_solution_document"
    /\ log[1].ok

\* C6 as stated: whenever the backend answers a Refine, the text it returned becomes
\* the generated document, whatever the text.
C6_AnyTextReplaces ==
    [][ RefineAnswered(inputs', calls') => generated_sd' = calls'[1].text ]_vars

\* C6, amended: the refinement call is given the current generated document, and when
\* the backend answers, a non-empty returned text becomes the generated document as
\* returned, while an empty returned text leaves the generated document as it was.
C6_NonEmptyTextReplaces ==
    [][ RefineAnswered(inputs', calls') =>
            /\ calls'[1].args[1] = generated_sd
            /\ generated_sd' = IF calls'[1].text # <<>> THEN calls'[1].text ELSE generated_sd ]_vars

\* A Refine replaced the document it was given by a different returned text
C6_Witness ==
    /\ RefineAnswered(inputs, calls)
    /\ calls[1].text # <<>>
    /\ calls[1].text # calls[1].args[1]
    /\ generated_sd = calls[1].text

IsValidation(c) == c.fn = "check_document_relevance"
\* The response of the relevance validator (what check_document_relevance returned)
\* begins with the invalid sentinel, or the validation call failed
ValidationRejects(c) == IsValidation(c) /\ (~c.ok \/ startswith(c.ret, INVALID))

\* C7: in an Analyze run, once a validation is rejected (its response begins with
\* INVALID, or its call failed) no further backend call is made and the run state and
\* the knowledge base stay as they were; a validation answered with any other
\* non-empty response is followed by the next call of the run.
C7_ValidationFailClosed ==
    [][ inputs'.btn = "generate_btn" =>
            /\ (\E i \in 1..Len(calls') : ValidationRejects(calls'[i]))
                  => /\ \A j \in 1..Len(calls') : IsValidation(calls'[j])
                     /\ ValidationRejects(calls'[Len(calls')])
                     /\ SessionUnchanged /\ KbUnchanged
            /\ \A i \in 1..Len(calls') :
                  (IsValidation(calls'[i]) /\ calls'[i].ok /\ calls'[i].ret # <<>>
                        /\ ~startswith(calls'[i].ret, INVALID))
                  => Len(calls') > i ]_vars

\* The regulatory validation passed on a response that is not the VALID sentinel and
\* the business validation call failed, which ended the run
C7_Witness ==
    /\ inputs.btn = "generate_btn"
    /\ Len(calls) = 2
    /\ calls[1].ok /\ calls[1].ret = <<"O", "K">>
    /\ IsValidation(calls[2]) /\ ~calls[2].ok
    /\ ~awaiting_missing_info

\* C8: in an Analyze run whose gap-analysis call failed or returned NONE, the synthesis
\* call follows in the same run and the run does not start awaiting the supplement; a
\* step starts awaiting it only after a gap-analysis call that was answered with a
\* report other than NONE.
C8_GapFailOpen ==
    [][ /\ (inputs'.btn = "generate_btn" /\ Len(calls') >= 3
               /\ (~calls'[3].ok \/ calls'[3].ret = NONE))
           => /\ calls'[3].fn = "check_missing_information"
              /\ Len(calls') = 4
              /\ calls'[4].fn = "get_groq_response"
              /\ ~awaiting_missing_info'
        /\ (awaiting_missing_info' /\ ~awaiting_missing_info)
           => /\ inputs'.btn = "generate_btn"
              /\ Len(calls') = 3
              /\ calls'[3].fn = "check_missing_information"
              /\ calls'[3].ok
              /\ calls'[3].ret # NONE
              /\ missing_info_report' = calls'[3].ret ]_vars

\* The gap-analysis call failed and the same run synthesized the document
C8_Witness ==
    /\ inputs.btn = "generate_btn"
    /\ Len(calls) = 4
    /\ calls[3].fn = "check_missing_information" /\ ~calls[3].ok
    /\ calls[4].fn = "get_groq_response" /\ calls[4].ok
    /\ generated_sd = calls[4].text
    /\ ~awaiting_missing_info

\* C9: an Analyze with no template, no regulatory text, no business text or no
\* credential issues no backend call and changes neither the run state nor the
\* knowledge base.
C9_BlockedAnalyze ==
    [][ (/\ inputs'.btn = "generate_btn"
         /\ \/ ~Truthy(inputs'.tpl)
            \/ inputs'.reg = <<>>
            \/ inputs'.brd = <<>>
            \/ ~Truthy(api_key))
        => (calls' = <<>> /\ SessionUnchanged /\ KbUnchanged) ]_vars

\* An Analyze without regulatory text ran while a document was on display
C9_Witness ==
    /\ inputs.btn = "generate_btn"
    /\ inputs.reg = <<>>
    /\ Truthy(inputs.tpl) /\ Truthy(api_key)
    /\ calls = <<>>
    /\ Truthy(generated_sd)

\* C10: no backend call is on record while the credential is absent, and an Analyze,
\* Proceed or Refine run without the credential issues none and changes neither the
\* run state nor the knowledge base.
C10_NoCallWithoutCredential ==
    /\ [](~Truthy(api_key) => calls = <<>>)
    /\ [][ (~Truthy(api_key) /\ inputs'.btn \in {"generate_btn", "proceed_btn", "submit_edit"})
           => (calls' = <<>> /\ SessionUnchanged /\ KbUnchanged) ]_vars

\* An Analyze with the template and both uploads ran without the credential
C10_Witness ==
    /\ inputs.btn = "generate_btn"
    /\ Truthy(inputs.tpl) /\ inputs.reg # <<>> /\ inputs.brd # <<>>
    /\ ~Truthy(api_key)
    /\ calls = <<>>
    /\ Cleared

IsSynthesis(c) == c.fn = "get_groq_response"
\* The synthesis returned a document: the backend answered with a non-empty text
SynthesisSucceeded(c) == IsSynthesis(c) /\ c.ok /\ c.text # <<>>
\* The gap analysis of an Analyze run, once both validations passed
GapCallMade(in, log) ==
    /\ in.btn = "generate_btn"
    /\ Len(log) >= 3
    /\ log[3].fn = "check_missing_information"

\* C11: an Analyze whose gap analysis returned a report other than NONE sets the
\* awaiting flag, stores the report, caches the four texts of the run and makes no
\* synthesis call; while the flag is set only a Proceed makes a synthesis call; the
\* synthesis call of a Proceed gets the cached regulatory, business and template texts
\* and, as supporting text, the cached one followed by the supplemental text under its
\* header (the cached one alone for a blank supplement, no section for an empty
\* text), and when it returns a document that becomes the generated document and the
\* flag is cleared.
C11_PauseAndProceed ==
    [][ /\ (GapCallMade(inputs', calls') /\ calls'[3].ret # NONE)
           => /\ Len(calls') = 3
              /\ awaiting_missing_info'
              /\ missing_info_report' = calls'[3].ret
              /\ cached_docs' = [reg |-> inputs'.reg, brd |-> inputs'.brd,
                                 add |-> inputs'.add, tpl |-> inputs'.tpl]
        /\ (awaiting_missing_info /\ \E i \in 1..Len(calls') : IsSynthesis(calls'[i]))
           => inputs'.btn = "proceed_btn"
        /\ inputs'.btn = "proceed_btn"
           => LET supporting ==
                      IF strip(inputs'.user_supplemental) # <<>>
                      THEN cached_docs.add \o SUPPLEMENT_HEADER \o inputs'.user_supplemental
                      ELSE cached_docs.add
              IN  /\ Len(calls') = 1
                  /\ IsSynthesis(calls'[1])
                  /\ calls'[1].args.reg = cached_docs.reg
                  /\ calls'[1].args.brd = cached_docs.brd
                  /\ calls'[1].args.tpl = cached_docs.tpl
                  /\ calls'[1].args.add = IF supporting # <<>> THEN supporting ELSE None
                  /\ SynthesisSucceeded(calls'[1])
                        => (generated_sd' = calls'[1].text /\ ~awaiting_missing_info') ]_vars

\* A Proceed with a supplement synthesized the document from the cached texts
C11_Witness ==
    /\ inputs.btn = "proceed_btn"
    /\ inputs.user_supplemental = <<"S">>
    /\ Len(calls) = 1 /\ SynthesisSucceeded(calls[1])
    /\ calls[1].args.add = <<"A">> \o SUPPLEMENT_HEADER \o <<"S">>
    /\ cached_docs # EmptyDict /\ cached_docs.add = <<"A">>
    /\ generated_sd = calls[1].text
    /\ ~awaiting_missing_info

\* C12: an Analyze whose validations passed and whose gap analysis returned NONE makes
\* the synthesis call in the same run, never sets the awaiting flag and records no
\* cached texts or report; when the synthesis returns a document it becomes the
\* generated document, so that from Idle the run ends Synthesized with nothing cached.
C12_DirectSynthesis ==
    [][ (GapCallMade(inputs', calls') /\ calls'[3].ret = NONE)
        => /\ Len(calls') = 4
           /\ IsSynthesis(calls'[4])
           /\ ~awaiting_missing_info'
           /\ cached_docs' = cached_docs
           /\ missing_info_report' = missing_info_report
           /\ SynthesisSucceeded(calls'[4]) => generated_sd' = calls'[4].text
           /\ (generated_sd = <<>>) => (cached_docs' = EmptyDict /\ missing_info_report' = <<>>) ]_vars

\* An Analyze went from Idle to Synthesized on a gap analysis that answered NONE
C12_Witness ==
    /\ inputs.btn = "generate_btn"
    /\ Len(calls) = 4
    /\ calls[3].ok /\ calls[3].ret = NONE
    /\ SynthesisSucceeded(calls[4])
    /\ generated_sd = calls[4].text
    /\ ~awaiting_missing_info
    /\ cached_docs = EmptyDict /\ missing_info_report = <<>>

\* C13: the click on Discard is handled in every state whose script run shows the
\* output section, the click on Cancel in every state whose script run shows the
\* missing-information prompt and Reset in every state;
\* each of them leaves the generated document empty, the awaiting flag false, the
\* report empty, the cached texts empty and the conflict flag unset, and leaves the
\* knowledge base and its file as they were.
C13_AbortOffered ==
    /\ (ScriptReachesInputs /\ Truthy(generated_sd)) => ENABLED discard_btn
    /\ (ScriptReachesInputs /\ awaiting_missing_info /\ ~Truthy(generated_sd)) => ENABLED cancel_btn
    /\ ENABLED Reset
C13_AbortClears ==
    /\ []C13_AbortOffered
    /\ [][ inputs'.btn \in {"discard_btn", "cancel_btn", "clear_all_btn"}
           => (Cleared' /\ KbUnchanged) ]_vars

\* A Discard cleared every pipeline field and kept the stored entries and their file
C13_Witness ==
    /\ inputs.btn = "discard_btn"
    /\ Cleared
    /\ knowledge_base # EmptyDict
    /\ kb_file = json_dump(knowledge_base)

\* The knowledge base a new session would load from the file
PersistedKb == IF kb_file # None THEN json_load(kb_file) ELSE EmptyDict
\* The step inserted an entry: a Store without conflict or an Auto-Assign & Save
Inserted ==
    \/ inputs'.btn = "auto_assign_btn"
    \/ inputs'.btn = "save_kb_btn" /\ cr_conflict' = None

\* C14: in every state the file holds what the knowledge base in memory holds (no file
\* standing for the empty knowledge base it is loaded as); every insertion by Store or
\* Auto-Assign & Save writes the whole updated knowledge base to the file and clears
\* the pipeline fields, and every step that changes the knowledge base in memory is
\* such an insertion.
C14_FileFollowsMemory ==
    /\ [](PersistedKb = knowledge_base)
    /\ [][ /\ Inserted => /\ Len(knowledge_base') = Len(knowledge_base) + 1
                          /\ kb_file' = json_dump(knowledge_base')
                          /\ Cleared'
           /\ knowledge_base' # knowledge_base => Inserted ]_vars

\* An Auto-Assign & Save wrote both entries of the knowledge base to the file
C14_Witness ==
    /\ inputs.btn = "auto_assign_btn"
    /\ Len(knowledge_base) = 2
    /\ kb_file # None /\ Len(kb_file) = 2
    /\ json_load(kb_file) = knowledge_base
    /\ Cleared

\* C15: the listing shows the entries latest insertion first: an insertion puts the new
\* entry on top of the listing as it was, so an entry is listed above every entry
\* inserted before it, and a Store that raises a conflict leaves the listing as it was.
C15_LatestFirst ==
    [][ /\ Inserted
           => /\ kb_listing(knowledge_base')[1].doc = generated_sd
              /\ ~DictHas(knowledge_base, kb_listing(knowledge_base')[1].key)
              /\ Tail(kb_listing(knowledge_base')) = kb_listing(knowledge_base)
        /\ (inputs'.btn = "save_kb_btn" /\ cr_conflict' # None)
           => kb_listing(knowledge_base') = kb_listing(knowledge_base) ]_vars

\* A Store put its entry on top of the entry the session started with
C15_Witness ==
    /\ inputs.btn = "save_kb_btn" /\ cr_conflict = None
    /\ Len(knowledge_base) = 2
    /\ kb_listing(knowledge_base)[1].key = strip(inputs.current_cr)
    /\ kb_listing(knowledge_base)[2].key = CRX

\* The call a complete Analyze run makes in each position
AnalyzeCallOrder == <<"check_document_relevance", "check_document_relevance",
                      "check_missing_information", "get_groq_response">>
ValidationPassed(c) == IsValidation(c) /\ ~startswith(c.ret, INVALID)

\* C16: the calls of one Analyze run are, in this order, the regulatory validation, the
\* business validation, the gap analysis and the synthesis, each at most once; the
\* business validation is made only after the regulatory validation passed, the gap
\* analysis only after both validations passed, and the synthesis only after the gap
\* analysis returned NONE.
C16_CallOrder ==
    inputs.btn = "generate_btn" =>
        /\ Len(calls) <= 4
        /\ \A i \in 1..Len(calls) : calls[i].fn = AnalyzeCallOrder[i]
        /\ Len(calls) >= 1 => calls[1].args = <<inputs.reg, "reg">>
        /\ Len(calls) >= 2 => (calls[2].args = <<inputs.brd, "brd">> /\ ValidationPassed(calls[1]))
        /\ Len(calls) >= 3 => (ValidationPassed(calls[1]) /\ ValidationPassed(calls[2]))
        /\ Len(calls) >= 4 => calls[3].ret = NONE

\* An Analyze run made all four calls and its synthesis call failed
C16_Witness ==
    /\ inputs.btn = "generate_btn"
    /\ Len(calls) = 4
    /\ ValidationPassed(calls[1]) /\ ValidationPassed(calls[2])
    /\ calls[3].ret = NONE
    /\ IsSynthesis(calls[4]) /\ ~calls[4].ok

\* C17: in every state the awaiting flag is not set together with a non-empty generated
\* document (AwaitingSupplement and Synthesized exclude each other).
C17_PausedExcludesSynthesized == ~(awaiting_missing_info /\ Truthy(generated_sd))

\* Neither a generated document nor a pause: the Idle state
Idle == ~Truthy(generated_sd) /\ ~awaiting_missing_info
\* The flagged key of a conflict is stored and belongs to a generated document
ConflictHasCause ==
    cr_conflict # None => (DictHas(knowledge_base, cr_conflict) /\ Truthy(generated_sd))

\* C18: in every state with the conflict flag set the flagged key is in the knowledge
\* base and the generated document is non-empty, and the flag is unset in Idle and
\* whenever the awaiting flag is set.
C18_ConflictOnlyWhenSynthesized ==
    /\ ConflictHasCause
    /\ Idle => cr_conflict = None
    /\ awaiting_missing_info => cr_conflict = None

\* C19: a Store with an empty or whitespace-only key field appends the generated
\* document under the key get_next_cr_number returns for the knowledge base and sets
\* no conflict; a Store with any other key field takes the typed text without its
\* surrounding whitespace as the key: when that key is stored it becomes the conflict
\* flag and the knowledge base stays as it was, otherwise the document is appended
\* under it.
C19_StoreKey ==
    [][ inputs'.btn = "save_kb_btn" =>
          LET typed == strip(inputs'.current_cr)
              key   == IF typed = <<>> THEN get_next_cr_number(knowledge_base) ELSE typed
          IN  /\ typed = <<>> => (cr_conflict' = None /\ ~DictHas(knowledge_base, key))
              /\ IF DictHas(knowledge_base, key)
                 THEN cr_conflict' = key /\ KbUnchanged
                 ELSE /\ knowledge_base' = Append(knowledge_base,
                                                  [key |-> key, doc |-> generated_sd])
                      /\ cr_conflict' = None ]_vars

\* A Store with a blank key field added the document under the key after CR3
C19_Witness ==
    /\ inputs.btn = "save_kb_btn"
    /\ inputs.current_cr = <<" ">>
    /\ Len(knowledge_base) = 2
    /\ knowledge_base[1].key = CR3
    /\ knowledge_base[2].key = CR \o zfill(str(4), CRWidth)
    /\ cr_conflict = None

\* How many times the header of the supplemental section occurs in a supporting text
SupplementSections(text) ==
    Cardinality({i \in 1..Len(text) : text[i] = SUPPLEMENT_HEADER[3]})

\* C20: a Proceed leaves the cached texts as they were, and one whose synthesis returns
\* no document leaves the whole run state as it was, so it can be repeated; the
\* supporting text a Proceed sends, after any number of earlier Proceeds, holds the
\* supplemental section once when a supplement was typed and not at all otherwise.
C20_RetryDoesNotAccumulate ==
    /\ [](inputs.btn = "proceed_btn"
            => SupplementSections(calls[1].args.add)
                 = IF strip(inputs.user_supplemental) # <<>> THEN 1 ELSE 0)
    /\ [][ inputs'.btn = "proceed_btn"
           => /\ cached_docs' = cached_docs
              /\ ~SynthesisSucceeded(calls'[1]) => SessionUnchanged ]_vars

\* A Proceed with a supplement failed and left the run paused with its cached texts
C20_Witness ==
    /\ inputs.btn = "proceed_btn"
    /\ inputs.user_supplemental = <<"S">>
    /\ Len(calls) = 1 /\ ~calls[1].ok
    /\ calls[1].args.add = <<"A">> \o SUPPLEMENT_HEADER \o <<"S">>
    /\ awaiting_missing_info
    /\ cached_docs # EmptyDict /\ cached_docs.add = <<"A">>
    /\ generated_sd = <<>>

\* C21: every stored document is non-empty; a click on Store or on Auto-Assign & Save
\* is handled only while the generated document is non-empty, and an insertion stores
\* that document; a non-empty generated document becomes empty only by Discard,
\* Cancel, Reset or an insertion, whatever the backend answers to an Analyze, a
\* Proceed or a Refine (an empty answer included).
C21_StoredDocumentsNonEmpty ==
    /\ [](\A i \in 1..Len(knowledge_base) : knowledge_base[i].doc # <<>>)
    /\ [][ /\ inputs'.btn \in {"save_kb_btn", "auto_assign_btn"} => Truthy(generated_sd)
           /\ Inserted => /\ knowledge_base'[Len(knowledge_base')].doc = generated_sd
                          /\ generated_sd # <<>>
           /\ (generated_sd # <<>> /\ generated_sd' = <<>>)
              => (Inserted \/ inputs'.btn \in {"discard_btn", "cancel_btn", "clear_all_btn"})
           /\ inputs'.btn \in {"generate_btn", "proceed_btn", "submit_edit"}
              => (generated_sd' # <<>> \/ generated_sd = <<>>) ]_vars

\* A Refine was answered with an empty text and the generated document was kept
C21_Witness ==
    /\ inputs.btn = "submit_edit"
    /\ Len(calls) = 1 /\ calls[1].ok /\ calls[1].text = <<>>
    /\ generated_sd = calls[1].args[1]
    /\ generated_sd # <<>>

====
